---- MODULE Spec2Model ----
(***************************************************************************)
(* Model of images-to-pdf.py: the directory scan and natural sort of       *)
(* get_image_files (the hand-written fallback path, taken when natsort is  *)
(* not importable), the per-file normalisation loop of                     *)
(* convert_images_to_pdf, the PDF save, and the exit code of main.         *)
(*                                                                         *)
(* A filename is a sequence of Unicode code points.  A sort-key item is a  *)
(* record [t |-> "int", n |-> value], [t |-> "str", s |-> code points] or  *)
(* [t |-> "err"] (int() raised ValueError).                                *)
(***************************************************************************)
EXTENDS Integers, Sequences, FiniteSets, TLC

\* ------------------------------------------------------------------ bounds
MaxStem == 2
MaxFiles == 3
MaxSortFiles == 3

\* ------------------------------------------------------- characters, str
\* '0'..'9'
AsciiDigits == 48..57

\* Arabic-Indic digits (category Nd): str.isdigit() accepts them and int()
\* parses them.
ArabicDigits == 1632..1641

\* Superscript two, three, one (category No, digit property): str.isdigit()
\* accepts them and int() raises ValueError on them.
SuperscriptDigits == {178, 179, 185}

\* str.isdigit(): every character is a digit character, and there is one.
isdigit(text) ==
    /\ Len(text) > 0
    /\ \A k \in 1..Len(text) :
          text[k] \in AsciiDigits \cup ArabicDigits \cup SuperscriptDigits

\* Whether int(text) parses a string that isdigit() accepted.
IntParses(text) ==
    \A k \in 1..Len(text) : text[k] \in AsciiDigits \cup ArabicDigits

DigitValue(c) == IF c \in AsciiDigits THEN c - 48 ELSE c - 1632

\* int(text) for a string of decimal digits: the base-10 value.
RECURSIVE IntValue(_)
IntValue(text) ==
    IF text = << >> THEN 0
    ELSE 10 * IntValue(SubSeq(text, 1, Len(text) - 1)) + DigitValue(text[Len(text)])

\* str.lower() on the characters of the model: 'A'..'Z' map to 'a'..'z'.
LowerChar(c) == IF c \in 65..90 THEN c + 32 ELSE c

lower(text) == [k \in 1..Len(text) |-> LowerChar(text[k])]

\* s < t for two str: lexicographic by code point, a proper prefix first.
RECURSIVE StrLess(_, _)
StrLess(s, t) ==
    IF t = << >> THEN FALSE
    ELSE IF s = << >> THEN TRUE
    ELSE IF s[1] # t[1] THEN s[1] < t[1]
    ELSE StrLess(Tail(s), Tail(t))

\* ------------------------------------------------------ natural_sort_key
\* Length of the longest prefix of s matching [0-9]*.
RECURSIVE DigitPrefixLen(_)
DigitPrefixLen(s) ==
    IF s # << >> /\ s[1] \in AsciiDigits THEN 1 + DigitPrefixLen(Tail(s)) ELSE 0

\* Length of the longest prefix of s with no character in [0-9].
RECURSIVE TextPrefixLen(_)
TextPrefixLen(s) ==
    IF s # << >> /\ s[1] \notin AsciiDigits THEN 1 + TextPrefixLen(Tail(s)) ELSE 0

\* re.split('([0-9]+)', s): text, digits, text, ..., text; the first and the
\* last chunk are text chunks and may be empty.
RECURSIVE resplit(_)
resplit(s) ==
    LET n == TextPrefixLen(s)
        rest == SubSeq(s, n + 1, Len(s))
        m == DigitPrefixLen(rest)
    IN  IF rest = << >> THEN << SubSeq(s, 1, n) >>
        ELSE << SubSeq(s, 1, n), SubSeq(rest, 1, m) >>
                 \o resplit(SubSeq(rest, m + 1, Len(rest)))

\* A plausible slip: the digit chunk is kept as text, never parsed.
convertNoInt(text) == [t |-> "str", s |-> lower(text)]

\* A plausible slip: the text chunk is not lower-cased.
convertNoLower(text) ==
    IF isdigit(text)
    THEN IF IntParses(text) THEN [t |-> "int", n |-> IntValue(text)] ELSE [t |-> "err"]
    ELSE [t |-> "str", s |-> text]

\* convert: int(text) if text.isdigit() else text.lower()
convert(text) ==
    IF isdigit(text)
    THEN IF IntParses(text) THEN [t |-> "int", n |-> IntValue(text)] ELSE [t |-> "err"]
    ELSE [t |-> "str", s |-> lower(text)]

\* natural_sort_key(path): [convert(c) for c in re.split('([0-9]+)', path.name)]
natural_sort_key(name) ==
    LET chunks == resplit(name) IN [k \in 1..Len(chunks) |-> convert(chunks[k])]

\* The key function raised (ValueError from int()).
KeyRaises(key) == \E k \in 1..Len(key) : key[k].t = "err"

\* a == b for two key items; an int never equals a str.
ItemEq(a, b) ==
    /\ a.t = b.t
    /\ IF a.t = "int" THEN a.n = b.n ELSE a.s = b.s

\* a < b for two key items: "lt", "ge", or "TypeError" for an int against a str.
ItemLess(a, b) ==
    IF a.t # b.t THEN "TypeError"
    ELSE IF a.t = "int" THEN (IF a.n < b.n THEN "lt" ELSE "ge")
    ELSE (IF StrLess(a.s, b.s) THEN "lt" ELSE "ge")

\* k1 < k2 for two keys (Python lists): the first pair of unequal items
\* decides; with none, the shorter list is the smaller.
RECURSIVE KeyLess(_, _)
KeyLess(k1, k2) ==
    IF k2 = << >> THEN "ge"
    ELSE IF k1 = << >> THEN "lt"
    ELSE IF ItemEq(k1[1], k2[1]) THEN KeyLess(Tail(k1), Tail(k2))
    ELSE ItemLess(k1[1], k2[1])

\* Some pair of keys cannot be ordered: their first unequal items are an int
\* and a str.
Incomparable(k1, k2) == KeyLess(k1, k2) = "TypeError" \/ KeyLess(k2, k1) = "TypeError"

\* A plausible slip: the new element goes in front of the elements whose key
\* equals its own (an unstable sort).
InsertBeforeEquals(sorted, x) ==
    LET kx == natural_sort_key(x)
        before == {p \in 1..Len(sorted) : KeyLess(natural_sort_key(sorted[p]), kx) = "lt"}
        n == Cardinality(before)
    IN  SubSeq(sorted, 1, n) \o << x >> \o SubSeq(sorted, n + 1, Len(sorted))

\* A plausible slip: reverse=True.
InsertDescending(sorted, x) ==
    LET kx == natural_sort_key(x)
        before == {p \in 1..Len(sorted) : KeyLess(natural_sort_key(sorted[p]), kx) # "lt"}
        n == Cardinality(before)
    IN  SubSeq(sorted, 1, n) \o << x >> \o SubSeq(sorted, n + 1, Len(sorted))

\* One step of the stable sort: x, which followed every element of sorted in
\* the input, goes behind the elements whose key is not greater than its own.
Insert(sorted, x) ==
    LET kx == natural_sort_key(x)
        before == {p \in 1..Len(sorted) : KeyLess(kx, natural_sort_key(sorted[p])) # "lt"}
        n == Cardinality(before)
    IN  SubSeq(sorted, 1, n) \o << x >> \o SubSeq(sorted, n + 1, Len(sorted))

RECURSIVE StableSort(_)
StableSort(names) ==
    IF names = << >> THEN << >>
    ELSE Insert(StableSort(SubSeq(names, 1, Len(names) - 1)), names[Len(names)])

\* image_files.sort(key=natural_sort_key): every key is computed first, and an
\* exception of the key function leaves the sort; a list of two or more is
\* then compared, and an int met by a str raises TypeError; otherwise the
\* result is the stable ascending order.
listsort(names) ==
    IF \E k \in 1..Len(names) : KeyRaises(natural_sort_key(names[k]))
    THEN [exc |-> "ValueError", files |-> << >>]
    ELSE IF \E a, b \in 1..Len(names) :
               a < b /\ Incomparable(natural_sort_key(names[a]), natural_sort_key(names[b]))
    THEN [exc |-> "TypeError", files |-> << >>]
    ELSE [exc |-> "none", files |-> StableSort(names)]

\* ------------------------------------------------------- get_image_files
\* ".jpg" ".jpeg" ".png" ".bmp" ".tiff" ".tif" ".webp" ".gif"
supported_formats ==
    { <<46, 106, 112, 103>>, <<46, 106, 112, 101, 103>>, <<46, 112, 110, 103>>,
      <<46, 98, 109, 112>>, <<46, 116, 105, 102, 102>>, <<46, 116, 105, 102>>,
      <<46, 119, 101, 98, 112>>, <<46, 103, 105, 102>> }

\* Path.suffix: the name from its last '.', unless that dot is the first or
\* the last character, or there is none.
suffix(name) ==
    LET dots == {k \in 1..Len(name) : name[k] = 46}
        last == IF dots = {} THEN 0 ELSE CHOOSE k \in dots : \A j \in dots : j <= k
    IN  IF 1 < last /\ last < Len(name) THEN SubSeq(name, last, Len(name)) ELSE << >>

\* file_path.is_file() and file_path.suffix.lower() in supported_formats
IsImageFile(entry) == entry.is_file /\ lower(suffix(entry.name)) \in supported_formats

RECURSIVE NamesOf(_)
NamesOf(es) == IF es = << >> THEN << >> ELSE << es[1].name >> \o NamesOf(Tail(es))

\* The loop over folder_path.iterdir(): the names kept, in iteration order.
ScanFolder(es) == NamesOf(SelectSeq(es, IsImageFile))

\* get_image_files(folder_path): [] for a missing folder or a non-directory,
\* otherwise the sorted list of the image files, or the exception the sort
\* raised.
get_image_files(kind, es) ==
    IF kind # "dir" THEN [exc |-> "none", files |-> << >>]
    ELSE listsort(ScanFolder(es))

\* ------------------------------------------------------------- images
\* A decoded image is one pixel wide: its mode, the pixel's bands, and whether
\* its data still rests on the decoder's file handle ("handle") or is the
\* image's own ("private").
NoImage == [mode |-> "none", px |-> << >>, backing |-> "none"]

\* The modes with an alpha band.
AlphaModes == {"RGBA", "LA"}

\* The alpha band of a pixel of an alpha mode (its last band).
AlphaOf(im) == im.px[Len(im.px)]

\* The RGB colour a pixel of an alpha mode carries.
ColourOf(im) ==
    IF im.mode = "RGBA" THEN SubSeq(im.px, 1, 3) ELSE << im.px[1], im.px[1], im.px[1] >>

\* Pillow's rounding division by 255 of a 16-bit product.
DIV255(a) == LET tmp == a + 128 IN ((tmp \div 256) + tmp) \div 256

\* Image.new('RGB', size, (255, 255, 255)) followed by
\* rgb_img.paste(img, mask=img.split()[-1]): each band of the white pixel is
\* blended with the source band, weighted by the source's alpha.
PasteOnWhite(px) ==
    [c \in 1..3 |-> DIV255(255 * (255 - px[4]) + px[c] * px[4])]

\* img.convert('RGB') for the other modes: LA repeats the luminance and drops
\* the alpha band; CMYK is inverted through the black band.
ConvertRGB(im) ==
    IF im.mode = "LA" THEN << im.px[1], im.px[1], im.px[1] >>
    ELSE LET nk == 255 - im.px[4]
         IN  [c \in 1..3 |-> nk - DIV255(im.px[c] * nk)]

\* The body of the with statement up to the copy: an RGB or L image is left
\* as it is, an RGBA image is pasted on white, any other mode is converted.
normalize(im) ==
    IF im.mode \in {"RGB", "L"} THEN im
    ELSE IF im.mode = "RGBA"
    THEN [mode |-> "RGB", px |-> PasteOnWhite(im.px), backing |-> "private"]
    ELSE [mode |-> "RGB", px |-> ConvertRGB(im), backing |-> "private"]

\* img.copy(): the pixel data loaded and duplicated.
copy(im) == [im EXCEPT !.backing = "private"]

\* A plausible slip: the file is opened without the with statement.
ReleaseLeak(hs, h) == hs

\* Leaving the with statement, normally or by an exception, closes the file.
Release(hs, h) == hs \ {h}

\* A plausible slip: the loop falls through to the save with an empty list.
NoImagesNever(ims) == FALSE

\* if not images
NoImages(ims) == ims = << >>

\* A plausible slip: append_images=images, the first page twice.
SaveArgsDup(ims) == << ims[1] >> \o ims

\* images[0].save(..., save_all=True, append_images=images[1:]): the pages the
\* encoder receives.
SaveArgs(ims) == << ims[1] >> \o SubSeq(ims, 2, Len(ims))

\* A plausible slip: sys.exit(1) forgotten.
ExitCodeAlwaysZero(ok) == 0

\* main: falls off the end after a success, sys.exit(1) otherwise.
ExitCodeOf(ok) == IF ok THEN 0 ELSE 1

\* -------------------------------------------------------------- inputs
\* ".png", ".PNG", ".txt"
Png == <<46, 112, 110, 103>>
PngUpper == <<46, 80, 78, 71>>
Txt == <<46, 116, 120, 116>>

File(name) == [name |-> name, is_file |-> TRUE]
Subdir(name) == [name |-> name, is_file |-> FALSE]

\* '0' '1' '2' 'a' 'B', superscript two, Arabic-Indic three
StemAlphabet == {48, 49, 50, 97, 66, 178, 1635}

Stems == UNION {[1..k -> StemAlphabet] : k \in 1..MaxStem}

\* The directory entries the sort is explored on: every stem with ".png", and
\* "a.PNG", "a.txt" and a subdirectory "b.png".
SortEntries ==
    {File(st \o Png) : st \in Stems}
        \cup {File(<<97>> \o PngUpper), File(<<97>> \o Txt), Subdir(<<98>> \o Png)}

\* The directory entries the conversion is explored on: "1.png", "2.png",
\* "10.png", "a.txt", a subdirectory "3.png", and "<superscript two>1.png".
PipelineEntries ==
    { File(<<49>> \o Png), File(<<50>> \o Png), File(<<49, 48>> \o Png),
      File(<<97>> \o Txt), Subdir(<<51>> \o Png), File(<<178, 49>> \o Png) }

\* A directory listing: at most n entries with distinct names, in the order
\* iterdir() yields them.
Listings(S, n) ==
    {es \in UNION {[1..k -> S] : k \in 0..n} :
        \A a, b \in 1..Len(es) : a # b => es[a].name # es[b].name}

Levels == {0, 128, 255}

\* What Image.open can return: an image of mode L, RGB, RGBA, LA or CMYK.
SourceImages ==
    {[mode |-> "L", px |-> << l >>, backing |-> "handle"] : l \in Levels}
    \cup {[mode |-> "RGB", px |-> p, backing |-> "handle"] : p \in [1..3 -> Levels]}
    \cup {[mode |-> "RGBA", px |-> p, backing |-> "handle"] : p \in [1..4 -> Levels]}
    \cup {[mode |-> "LA", px |-> p, backing |-> "handle"] : p \in [1..2 -> Levels]}
    \cup {[mode |-> "CMYK", px |-> p, backing |-> "handle"] : p \in [1..4 -> Levels]}

\* The images the conversion is explored on: an RGB pixel, a transparent
\* RGBA pixel, a transparent LA pixel.
DecodedImages ==
    { [mode |-> "RGB", px |-> <<0, 128, 255>>, backing |-> "handle"],
      [mode |-> "RGBA", px |-> <<255, 0, 0, 0>>, backing |-> "handle"],
      [mode |-> "LA", px |-> <<0, 0>>, backing |-> "handle"] }

\* --------------------------------------------------------------- state
VARIABLES
    pillow,       \* whether "from PIL import Image" succeeds
    folderKind,   \* "missing", "file" or "dir": what the folder argument names
    entries,      \* the folder's entries, in iterdir() order
    pc,           \* the position of the run
    image_files,  \* the list get_image_files returned
    exc,          \* the exception that left get_image_files uncaught, or "none"
    i,            \* the index of the file the loop is at
    decoded,      \* the image Image.open returned for that file
    img,          \* the variable img
    handles,      \* the files whose decoder handle is open
    images,       \* the list images: [src |-> file name, im |-> image]
    warnings,     \* the files a "Warning: Could not process" line was printed for
    fsWrites,     \* the writes made to the filesystem: "mkdir", "write"
    encoded,      \* the pages the save call handed to the encoder
    raised,       \* the step after the loop that raised: "none", "mkdir", "save", "stat"
    success,      \* the value convert_images_to_pdf returned
    exitCode      \* the exit status of the process, -1 while it runs

vars == << pillow, folderKind, entries, pc, image_files, exc, i, decoded, img,
           handles, images, warnings, fsWrites, encoded, raised, success, exitCode >>

\* The state every run starts from, but for its inputs and its position.
Fresh ==
    /\ image_files = << >>
    /\ exc = "none"
    /\ i = 1
    /\ decoded = NoImage
    /\ img = NoImage
    /\ handles = {}
    /\ images = << >>
    /\ warnings = << >>
    /\ fsWrites = {}
    /\ encoded = << >>
    /\ raised = "none"
    /\ success = FALSE
    /\ exitCode = -1

\* main has parsed its arguments and calls convert_images_to_pdf.
Init ==
    /\ pillow \in BOOLEAN
    /\ folderKind \in {"missing", "file", "dir"}
    /\ entries \in IF folderKind = "dir" THEN Listings(PipelineEntries, MaxFiles) ELSE {<< >>}
    /\ pc = "start"
    /\ Fresh

\* convert_images_to_pdf calls get_image_files on a directory.
InitSort ==
    /\ pillow = TRUE
    /\ folderKind = "dir"
    /\ entries \in Listings(SortEntries, MaxSortFiles)
    /\ pc = "scan"
    /\ Fresh

\* The loop has opened its only file, "1.png".
InitNorm ==
    /\ pillow = TRUE
    /\ folderKind = "dir"
    /\ entries = << File(<<49>> \o Png) >>
    /\ pc = "normalize"
    /\ image_files = << <<49>> \o Png >>
    /\ exc = "none"
    /\ i = 1
    /\ decoded \in SourceImages
    /\ img = decoded
    /\ handles = {image_files[1]}
    /\ images = << >>
    /\ warnings = << >>
    /\ fsWrites = {}
    /\ encoded = << >>
    /\ raised = "none"
    /\ success = FALSE
    /\ exitCode = -1

\* -------------------------------------------------------------- actions
\* if not check_pillow(): return False
CheckPillow ==
    /\ pc = "start"
    /\ IF pillow
       THEN pc' = "scan" /\ UNCHANGED success
       ELSE pc' = "exit" /\ success' = FALSE
    /\ UNCHANGED << pillow, folderKind, entries, image_files, exc, i, decoded, img,
                    handles, images, warnings, fsWrites, encoded, raised, exitCode >>

\* image_files = get_image_files(image_folder).  An exception of the sort is
\* caught nowhere: the interpreter prints the traceback and exits with 1.
GetImageFiles ==
    /\ pc = "scan"
    /\ LET r == get_image_files(folderKind, entries)
       IN  /\ image_files' = r.files
           /\ exc' = r.exc
           /\ IF r.exc = "none"
              THEN pc' = "found" /\ UNCHANGED exitCode
              ELSE pc' = "done" /\ exitCode' = 1
    /\ UNCHANGED << pillow, folderKind, entries, i, decoded, img, handles, images,
                    warnings, fsWrites, encoded, raised, success >>

\* if not image_files: return False
CheckFound ==
    /\ pc = "found"
    /\ IF image_files = << >>
       THEN pc' = "exit" /\ success' = FALSE
       ELSE pc' = "loop" /\ UNCHANGED success
    /\ UNCHANGED << pillow, folderKind, entries, image_files, exc, i, decoded, img,
                    handles, images, warnings, fsWrites, encoded, raised, exitCode >>

\* except Exception as e: print(f"Warning: ..."); continue
Skip ==
    /\ warnings' = Append(warnings, image_files[i])
    /\ i' = i + 1
    /\ pc' = "loop"

\* with Image.open(img_path) as img: the file is decoded.
OpenOk ==
    /\ pc = "loop"
    /\ i <= Len(image_files)
    /\ \E im \in DecodedImages : decoded' = im /\ img' = im
    /\ handles' = handles \cup {image_files[i]}
    /\ pc' = "normalize"
    /\ UNCHANGED << pillow, folderKind, entries, image_files, exc, i, images,
                    warnings, fsWrites, encoded, raised, success, exitCode >>

\* Image.open raises: no handle is left open.
OpenRaises ==
    /\ pc = "loop"
    /\ i <= Len(image_files)
    /\ Skip
    /\ UNCHANGED << pillow, folderKind, entries, image_files, exc, decoded, img,
                    handles, images, fsWrites, encoded, raised, success, exitCode >>

\* The mode test and the paste or the convert.
NormalizeOk ==
    /\ pc = "normalize"
    /\ img' = normalize(img)
    /\ pc' = "copy"
    /\ UNCHANGED << pillow, folderKind, entries, image_files, exc, i, decoded,
                    handles, images, warnings, fsWrites, encoded, raised, success,
                    exitCode >>

\* split, paste or convert raises (the pixel data fails to load): the with
\* statement closes the file on the way to the except clause.
NormalizeRaises ==
    /\ pc = "normalize"
    /\ img.mode \notin {"RGB", "L"}
    /\ handles' = Release(handles, image_files[i])
    /\ Skip
    /\ UNCHANGED << pillow, folderKind, entries, image_files, exc, decoded, img,
                    images, fsWrites, encoded, raised, success, exitCode >>

\* img_copy = img.copy(); images.append(img_copy)
CopyOk ==
    /\ pc = "copy"
    /\ images' = Append(images, [src |-> image_files[i], im |-> copy(img)])
    /\ pc' = "exit_with"
    /\ UNCHANGED << pillow, folderKind, entries, image_files, exc, i, decoded, img,
                    handles, warnings, fsWrites, encoded, raised, success, exitCode >>

\* img.copy() raises (the pixel data of an RGB or L file fails to load).
CopyRaises ==
    /\ pc = "copy"
    /\ handles' = Release(handles, image_files[i])
    /\ Skip
    /\ UNCHANGED << pillow, folderKind, entries, image_files, exc, decoded, img,
                    images, fsWrites, encoded, raised, success, exitCode >>

\* The with statement ends: the file is closed, the loop goes on.
ExitWith ==
    /\ pc = "exit_with"
    /\ handles' = Release(handles, image_files[i])
    /\ i' = i + 1
    /\ pc' = "loop"
    /\ UNCHANGED << pillow, folderKind, entries, image_files, exc, decoded, img,
                    images, warnings, fsWrites, encoded, raised, success, exitCode >>

\* if not images: return False
NoPages ==
    /\ pc = "loop"
    /\ i > Len(image_files)
    /\ NoImages(images)
    /\ success' = FALSE
    /\ pc' = "exit"
    /\ UNCHANGED << pillow, folderKind, entries, image_files, exc, i, decoded, img,
                    handles, images, warnings, fsWrites, encoded, raised, exitCode >>

\* output_path.parent.mkdir(parents=True, exist_ok=True): the directory is
\* there already, or it is made.
Mkdir ==
    /\ pc = "loop"
    /\ i > Len(image_files)
    /\ ~NoImages(images)
    /\ \E made \in BOOLEAN : fsWrites' = IF made THEN fsWrites \cup {"mkdir"} ELSE fsWrites
    /\ pc' = "save"
    /\ UNCHANGED << pillow, folderKind, entries, image_files, exc, i, decoded, img,
                    handles, images, warnings, encoded, raised, success, exitCode >>

\* mkdir raises, after it made some of the parents or none; the outer except
\* clause returns False.
MkdirRaises ==
    /\ pc = "loop"
    /\ i > Len(image_files)
    /\ ~NoImages(images)
    /\ \E made \in BOOLEAN : fsWrites' = IF made THEN fsWrites \cup {"mkdir"} ELSE fsWrites
    /\ raised' = "mkdir"
    /\ success' = FALSE
    /\ pc' = "exit"
    /\ UNCHANGED << pillow, folderKind, entries, image_files, exc, i, decoded, img,
                    handles, images, warnings, encoded, exitCode >>

\* images[0].save(...) writes the document.
SaveOk ==
    /\ pc = "save"
    /\ images # << >>
    /\ encoded' = SaveArgs(images)
    /\ fsWrites' = fsWrites \cup {"write"}
    /\ pc' = "stat"
    /\ UNCHANGED << pillow, folderKind, entries, image_files, exc, i, decoded, img,
                    handles, images, warnings, raised, success, exitCode >>

\* The save raises: images[0] on an empty list, or the encoder, which may
\* have written a part of the file; the outer except clause returns False.
SaveRaises ==
    /\ pc = "save"
    /\ IF images = << >>
       THEN UNCHANGED << encoded, fsWrites >>
       ELSE /\ encoded' = SaveArgs(images)
            /\ \E part \in BOOLEAN :
                  fsWrites' = IF part THEN fsWrites \cup {"write"} ELSE fsWrites
    /\ raised' = "save"
    /\ success' = FALSE
    /\ pc' = "exit"
    /\ UNCHANGED << pillow, folderKind, entries, image_files, exc, i, decoded, img,
                    handles, images, warnings, exitCode >>

\* output_path.stat() and the report; return True.
StatOk ==
    /\ pc = "stat"
    /\ success' = TRUE
    /\ pc' = "exit"
    /\ UNCHANGED << pillow, folderKind, entries, image_files, exc, i, decoded, img,
                    handles, images, warnings, fsWrites, encoded, raised, exitCode >>

\* output_path.stat() raises; the outer except clause returns False.
StatRaises ==
    /\ pc = "stat"
    /\ raised' = "stat"
    /\ success' = FALSE
    /\ pc' = "exit"
    /\ UNCHANGED << pillow, folderKind, entries, image_files, exc, i, decoded, img,
                    handles, images, warnings, fsWrites, encoded, exitCode >>

\* main: the process ends with the exit status.
Exit ==
    /\ pc = "exit"
    /\ exitCode' = ExitCodeOf(success)
    /\ pc' = "done"
    /\ UNCHANGED << pillow, folderKind, entries, image_files, exc, i, decoded, img,
                    handles, images, warnings, fsWrites, encoded, raised, success >>

Next ==
    \/ CheckPillow
    \/ GetImageFiles
    \/ CheckFound
    \/ OpenOk
    \/ OpenRaises
    \/ NormalizeOk
    \/ NormalizeRaises
    \/ CopyOk
    \/ CopyRaises
    \/ ExitWith
    \/ NoPages
    \/ Mkdir
    \/ MkdirRaises
    \/ SaveOk
    \/ SaveRaises
    \/ StatOk
    \/ StatRaises
    \/ Exit

Spec == Init /\ [][Next]_vars

\* get_image_files alone, on the listings over SortEntries.
NextSort == GetImageFiles

SpecSort == InitSort /\ [][NextSort]_vars

\* The normalisation of one opened file, on every image of SourceImages.
NextNorm == NormalizeOk \/ NormalizeRaises

SpecNorm == InitNorm /\ [][NextNorm]_vars

\* ------------------------------------------------- the claims: helpers
\* The position of name in the list names.
PosIn(names, name) == CHOOSE k \in 1..Len(names) : names[k] = name

\* The candidates of the run: the image files of the folder, as scanned.
Candidates == IF folderKind = "dir" THEN ScanFolder(entries) ELSE << >>

AllAsciiDigits(s) == Len(s) > 0 /\ \A k \in 1..Len(s) : s[k] \in AsciiDigits

HasNoDigit(s) == \A k \in 1..Len(s) : s[k] \notin AsciiDigits

\* The pairs <<d1, d2>> such that x = p d1 s and y = p d2 s, where d1 and d2
\* are different maximal runs of the digits 0-9.
RunPairs(x, y) ==
    { << SubSeq(x, c[1] + 1, c[2]), SubSeq(y, c[1] + 1, c[3]) >> :
        c \in { d \in (0..Len(x)) \X (1..Len(x)) \X (1..Len(y)) :
                  /\ d[1] < d[2] /\ d[1] < d[3]
                  /\ SubSeq(x, 1, d[1]) = SubSeq(y, 1, d[1])
                  /\ (d[1] = 0 \/ x[d[1]] \notin AsciiDigits)
                  /\ AllAsciiDigits(SubSeq(x, d[1] + 1, d[2]))
                  /\ AllAsciiDigits(SubSeq(y, d[1] + 1, d[3]))
                  /\ SubSeq(x, d[2] + 1, Len(x)) = SubSeq(y, d[3] + 1, Len(y))
                  /\ (d[2] = Len(x) \/ x[d[2] + 1] \notin AsciiDigits)
                  /\ SubSeq(x, d[1] + 1, d[2]) # SubSeq(y, d[1] + 1, d[3]) } }

\* Two keys compare equal.
KeyEqual(k1, k2) == KeyLess(k1, k2) = "ge" /\ KeyLess(k2, k1) = "ge"

\* The tokenization of section 4.1: the digit runs and the text runs of the
\* name, empty end chunks omitted, a digit run as its value and a text run
\* lower-cased.
SpecTokens(name) ==
    LET chunks == SelectSeq(resplit(name), LAMBDA c : c # << >>)
    IN  [k \in 1..Len(chunks) |->
            IF chunks[k][1] \in AsciiDigits
            THEN [t |-> "int", n |-> IntValue(chunks[k])]
            ELSE [t |-> "str", s |-> lower(chunks[k])]]

\* The token sequences of x and y first differ at a position where x has a
\* text chunk and y a numeric chunk.
TextMeetsNumeric(x, y) ==
    LET tx == SpecTokens(x)
        ty == SpecTokens(y)
    IN  \E p \in 1..Len(tx) :
           /\ p <= Len(ty)
           /\ \A q \in 1..(p - 1) : ItemEq(tx[q], ty[q])
           /\ tx[p].t = "str"
           /\ ty[p].t = "int"

\* The names of the pages of a page list.
RECURSIVE SrcOf(_)
SrcOf(pages) == IF pages = << >> THEN << >> ELSE << pages[1].src >> \o SrcOf(Tail(pages))

\* The files of the sorted list no warning was printed for.
Survivors ==
    SelectSeq(image_files, LAMBDA n : \A k \in 1..Len(warnings) : warnings[k] # n)

\* ------------------------------------------------------------ the claims
\* C1: in every list get_image_files returns, two names that are identical
\* except for one run of the digits 0-9 stand in the order of the integer
\* values of the two runs: the name with the smaller value is first.
C1_DigitRunsByValue ==
    \A a, b \in 1..Len(image_files) :
        a < b =>
            \A d \in RunPairs(image_files[a], image_files[b]) :
                IntValue(d[1]) <= IntValue(d[2])

\* C1 witness: a returned list where a run of smaller value stands before a
\* run that precedes it character by character ("2" before "10").
C1_Witness ==
    \E a, b \in 1..Len(image_files) :
        /\ a < b
        /\ \E d \in RunPairs(image_files[a], image_files[b]) :
              IntValue(d[1]) < IntValue(d[2]) /\ StrLess(d[2], d[1])

\* C5: the natural sort never fails: get_image_files raises no exception,
\* whatever the names of the folder's files are.
C5_SortNeverRaises == exc = "none"

\* C6, as stated: when the token sequences of two names of the returned list
\* first differ at a text chunk against a numeric chunk, the name with the
\* text chunk is first.
C6_TextFirst ==
    \A a, b \in 1..Len(image_files) :
        a < b => ~TextMeetsNumeric(image_files[b], image_files[a])

\* C6, amended: when the token sequences of two names of the returned list
\* first differ at a text chunk against a numeric chunk, the name with the
\* numeric chunk is first.
C6_NumericFirst ==
    \A a, b \in 1..Len(image_files) :
        a < b => ~TextMeetsNumeric(image_files[a], image_files[b])

\* C6 witness: a returned list with a name starting with a digit before a
\* name starting with text.
C6_Witness ==
    \E a, b \in 1..Len(image_files) :
        a < b /\ TextMeetsNumeric(image_files[b], image_files[a])

\* C7: two names of the returned list that differ only in the leading zeros
\* of one digit run have equal keys and stand in the order the folder scan
\* yielded them, and a name with a smaller value in that run stands before a
\* name with a larger one.
C7_LeadingZerosStable ==
    \A a, b \in 1..Len(image_files) :
        a < b =>
            \A d \in RunPairs(image_files[a], image_files[b]) :
                /\ IntValue(d[1]) <= IntValue(d[2])
                /\ IntValue(d[1]) = IntValue(d[2]) =>
                      /\ KeyEqual(natural_sort_key(image_files[a]),
                                  natural_sort_key(image_files[b]))
                      /\ PosIn(Candidates, image_files[a]) < PosIn(Candidates, image_files[b])

\* C7 witness: a returned list of three names, two of them equal but for
\* leading zeros and kept in scan order against their character order, both
\* before a name with a larger value.
C7_Witness ==
    /\ Len(image_files) = 3
    /\ \E d \in RunPairs(image_files[1], image_files[2]) :
          IntValue(d[1]) = IntValue(d[2]) /\ StrLess(d[2], d[1])
    /\ \E d \in RunPairs(image_files[2], image_files[3]) : IntValue(d[1]) < IntValue(d[2])

\* C8: the returned list is ordered by the lower-cased text chunks: in the
\* list, the key of a later name, lower-cased, is never below the key of an
\* earlier name, lower-cased; names without digits are in the order of their
\* lower-cased strings; two names that differ only in letter case have equal
\* keys and stand in the order the folder scan yielded them.
C8_CaseInsensitive ==
    \A a, b \in 1..Len(image_files) :
        a < b =>
            LET x == image_files[a]
                y == image_files[b]
            IN  /\ KeyLess(natural_sort_key(lower(y)), natural_sort_key(lower(x))) # "lt"
                /\ HasNoDigit(x) /\ HasNoDigit(y) => ~StrLess(lower(y), lower(x))
                /\ lower(x) = lower(y) =>
                      /\ KeyEqual(natural_sort_key(x), natural_sort_key(y))
                      /\ PosIn(Candidates, x) < PosIn(Candidates, y)

\* C8 witness: a returned list where a digit-free name stands before one
\* that precedes it by code point ("a.png" before "B.png"), and where two
\* names differ only in letter case.
C8_Witness ==
    /\ \E a, b \in 1..Len(image_files) :
          /\ a < b
          /\ HasNoDigit(image_files[a]) /\ HasNoDigit(image_files[b])
          /\ StrLess(image_files[b], image_files[a])
          /\ StrLess(lower(image_files[a]), lower(image_files[b]))
    /\ \E a, b \in 1..Len(image_files) :
          a < b /\ lower(image_files[a]) = lower(image_files[b])

\* C2: the pages the save call hands to the encoder are the files of the
\* sorted list no warning was printed for, one page each, in the order of the
\* sorted list.
C2_PagesAreSurvivors ==
    /\ pc = "stat" => encoded # << >>
    /\ encoded # << >> => SrcOf(encoded) = Survivors

\* C2 witness: a save of two pages after the middle file of three was
\* skipped.
C2_Witness ==
    /\ pc = "stat"
    /\ Len(image_files) = 3
    /\ warnings = << image_files[2] >>
    /\ SrcOf(encoded) = << image_files[1], image_files[3] >>

\* C3, as stated: the exit code is 1 exactly when the folder is missing or no
\* directory, or no file matches the allow-list, or every candidate failed,
\* or the encode step raised; otherwise it is 0.
C3_ExitCodeAsStated ==
    pc = "done" =>
        /\ exitCode \in {0, 1}
        /\ exitCode = 1 <=>
              \/ folderKind # "dir"
              \/ Candidates = << >>
              \/ Len(warnings) = Len(Candidates)
              \/ raised = "save"

\* C3, amended: the exit code is 1 exactly when Pillow cannot be imported, or
\* the folder is missing or no directory, or no file matches the allow-list,
\* or the sort raises, or every candidate failed, or the directory creation,
\* the encode step or the size query after it raised; otherwise it is 0.
C3_ExitCode ==
    pc = "done" =>
        /\ exitCode \in {0, 1}
        /\ exitCode = 1 <=>
              \/ ~pillow
              \/ folderKind # "dir"
              \/ Candidates = << >>
              \/ exc # "none"
              \/ Len(warnings) = Len(Candidates)
              \/ raised # "none"

\* C3 witness: a run that ends with exit code 0 although a file was skipped.
C3_Witness == pc = "done" /\ exitCode = 0 /\ warnings # << >>

\* C4: as long as no image has been normalized, the run has written nothing:
\* no directory made, no output file written, no encode call made.
C4_NoWriteWithoutPages == images = << >> => fsWrites = {} /\ encoded = << >>

\* C4 witness: a run that ended after every candidate failed.
C4_Witness ==
    pc = "done" /\ images = << >> /\ Len(image_files) >= 2 /\ Len(warnings) = Len(image_files)

\* C9: after the normalization of an image of a mode with an alpha band, a
\* fully transparent pixel is white, a fully opaque pixel has its own colour,
\* and the mode is L or RGB.
C9_AlphaOnWhite ==
    pc = "copy" /\ decoded.mode \in AlphaModes =>
        /\ img.mode \in {"L", "RGB"}
        /\ AlphaOf(decoded) = 0 => img.px = <<255, 255, 255>>
        /\ AlphaOf(decoded) = 255 => img.px = ColourOf(decoded)

\* C10: at most one decoder handle is open, and only that of the file the
\* loop is at; none is open when the loop turns to the next file, nor from
\* the end of the loop on; every page kept is a private copy.
C10_HandlesReleased ==
    /\ Cardinality(handles) <= 1
    /\ handles # {} => i <= Len(image_files) /\ handles = {image_files[i]}
    /\ pc \in {"loop", "save", "stat", "exit", "done"} => handles = {}
    /\ \A k \in 1..Len(images) : images[k].im.backing = "private"

\* C10 witness: the save is reached after one file was kept from an RGB
\* source and another file's normalization raised.
C10_Witness ==
    /\ pc = "save"
    /\ warnings # << >>
    /\ \E k \in 1..Len(images) : images[k].im.px = <<0, 128, 255>>
    /\ Len(image_files) = 3

====
